---- MODULE Spec2Model ----
(***************************************************************************)
(* chromalog/colorizer.py: the colour-tag resolver (GenericColorizer), the *)
(* lazy wrapper (ColorizedObject) and the stream printer (Printer).        *)
(*                                                                         *)
(* A Python string is a sequence of one-character strings, so that         *)
(* iterating over a string, concatenating and str.format are computed as   *)
(* Python computes them.  An escape sequence of colorama is one opaque     *)
(* character.                                                              *)
(***************************************************************************)
EXTENDS Integers, Sequences, FiniteSets, TLC

VARIABLES
    klass,              \* the colorizer's class
    color_map_arg,      \* the color_map argument the constructor was given
    color_map,          \* GenericColorizer.color_map
    default_color_tag,  \* GenericColorizer.default_color_tag
    stream,             \* the printers' stream: the chunks written, in order
    call,               \* the last call made and its arguments
    ret,                \* what the last get_color_pair / colorize returned
    raised,             \* whether the last call raised
    pc,                 \* per concurrent printer call: its position
    emitted             \* the messages of the printer calls that returned

vars == <<klass, color_map_arg, color_map, default_color_tag, stream, call,
          ret, raised, pc, emitted>>

\* ------------------------------------------------------------------ bounds

\* Longest list of colour tags tried.
MaxTags == 2
\* Number of successive printer calls tried on one stream.
MaxCalls == 2
\* Number of printer calls running concurrently on one stream.
NumWriters == 2

\* ----------------------------------------------------------------- strings

RECURSIVE Join(_)
\* ''.join(strs)
Join(strs) == IF strs = <<>> THEN <<>> ELSE Head(strs) \o Join(Tail(strs))

\* reversed(seq), seq[::-1]
Reversed(seq) == [i \in 1..Len(seq) |-> seq[Len(seq) + 1 - i]]

SeqsUpTo(S, n) == UNION {[1..k -> S] : k \in 0..n}

\* -------------------------------------------------------------- tag values

\* A value of a color_tag / context_color_tag / default_color_tag slot:
\* None, a string, or a list of strings.
NoneTag == [kind |-> "None", val |-> <<>>]
StrTag(s) == [kind |-> "str", val |-> s]
ListTag(l) == [kind |-> "list", val |-> l]

\* Python truthiness of such a value: None, '' and [] are falsy.
Truthy(v) == v.kind # "None" /\ v.val # <<>>

\* for tag in color_tag: a list yields its elements, a string its characters.
Iter(color_tag) ==
    IF color_tag.kind = "str"
    THEN [i \in 1..Len(color_tag.val) |-> <<color_tag.val[i]>>]
    ELSE color_tag.val

\* ------------------------------------------------------------- color pairs

\* A (start, stop) pair, or None.
NonePair == [none |-> TRUE, start |-> <<>>, stop |-> <<>>]
Pair(s, e) == [none |-> FALSE, start |-> s, stop |-> e]

\* pair[::-1]
SwapPair(p) == Pair(p.stop, p.start)

\* The tag names used.
TagA == <<"a">>
TagB == <<"b">>
TagC == <<"c">>
TagAB == <<"a", "b">>
TagError == <<"e", "r", "r", "o", "r">>
TagImportant == <<"i", "m", "p", "o", "r", "t", "a", "n", "t">>

\* The pairs the tests give their tags (test_colorizer.py), and a two-character
\* tag name with two-character sequences.
UserPairs ==
    [t \in {TagA, TagB, TagC, TagAB} |->
        CASE t = TagA -> Pair(<<"[">>, <<"]">>)
          [] t = TagB -> Pair(<<"(">>, <<")">>)
          [] t = TagC -> Pair(<<"<">>, <<">">>)
          [] t = TagAB -> Pair(<<"S", "M">>, <<"E", "M">>)]

Restrict(f, S) == [t \in S |-> f[t]]

\* Colorizer.default_color_map; each colorama constant is one character.
ColorizerMap ==
    [t \in {<<"d", "e", "b", "u", "g">>, <<"i", "n", "f", "o">>, TagImportant,
            <<"s", "u", "c", "c", "e", "s", "s">>,
            <<"w", "a", "r", "n", "i", "n", "g">>, TagError,
            <<"c", "r", "i", "t", "i", "c", "a", "l">>} |->
        CASE t = <<"d", "e", "b", "u", "g">> ->
                Pair(<<"Style.DIM">> \o <<"Fore.CYAN">>, <<"Style.RESET_ALL">>)
          [] t = <<"i", "n", "f", "o">> ->
                Pair(<<"Style.RESET_ALL">>, <<"Style.RESET_ALL">>)
          [] t = TagImportant -> Pair(<<"Style.BRIGHT">>, <<"Style.RESET_ALL">>)
          [] t = <<"s", "u", "c", "c", "e", "s", "s">> ->
                Pair(<<"Fore.GREEN">>, <<"Style.RESET_ALL">>)
          [] t = <<"w", "a", "r", "n", "i", "n", "g">> ->
                Pair(<<"Fore.YELLOW">>, <<"Style.RESET_ALL">>)
          [] t = TagError -> Pair(<<"Fore.RED">>, <<"Style.RESET_ALL">>)
          [] t = <<"c", "r", "i", "t", "i", "c", "a", "l">> ->
                Pair(<<"Back.RED">>, <<"Style.RESET_ALL">>)]

\* MonochromaticColorizer.default_color_map
MonochromaticMap == [t \in {TagImportant} |-> Pair(<<"*", "*">>, <<"*", "*">>)]

Classes == {"GenericColorizer", "Colorizer", "MonochromaticColorizer"}

\* Whether the class has a default_color_map attribute: GenericColorizer has
\* none, and reading it raises AttributeError.
HasDefaultMap(k) == k # "GenericColorizer"

default_color_map(k) ==
    IF k = "MonochromaticColorizer" THEN MonochromaticMap ELSE ColorizerMap

\* The color_map argument: None or a dict.
NoMap == [given |-> FALSE, map |-> <<>>]
Map(m) == [given |-> TRUE, map |-> m]

\* color_map or self.default_color_map: None and {} are falsy.
MapTruthy(arg) == arg.given /\ DOMAIN arg.map # {}

\* GenericColorizer.__init__: the color_map attribute it sets.
init_color_map(k, arg) == IF MapTruthy(arg) THEN arg.map ELSE default_color_map(k)

\* self.color_map.get(tag) for a tag that is None or a string.
Get(cmap, tag) ==
    IF tag.kind = "str" /\ tag.val \in DOMAIN cmap THEN cmap[tag.val] ELSE NonePair

\* ---------------------------------------------------------- get_color_pair

\* list(filter(None, (self.color_map.get(tag) for tag in color_tag)))
FoundPairs(cmap, color_tag) ==
    LET tags == Iter(color_tag)
        got == [i \in 1..Len(tags) |-> Get(cmap, StrTag(tags[i]))]
    IN  SelectSeq(got, LAMBDA p : ~p.none)

\* A faulty DefaultIfEmpty: the default tag's pair is added whether or not a
\* tag was found.
DefaultAlways(cmap, dflt, pairs) ==
    LET pair == Get(cmap, dflt)
    IN  IF ~pair.none THEN pairs \o <<pair>> ELSE pairs

\* if not pairs: pair = self.color_map.get(self.default_color_tag) ...
DefaultIfEmpty(cmap, dflt, pairs) ==
    IF pairs = <<>>
    THEN LET pair == Get(cmap, dflt)
         IN  IF ~pair.none THEN <<pair>> ELSE pairs
    ELSE pairs

\* A faulty ContextPairs: the context pair first, its reverse second.
ContextUnreversed(ctx_pair) == <<ctx_pair, SwapPair(ctx_pair)>>

\* A faulty ContextPairs: the reversed context pair alone.
ContextOnce(ctx_pair) == <<SwapPair(ctx_pair)>>

\* [ctx_pair[::-1], ctx_pair]
ContextPairs(ctx_pair) == <<SwapPair(ctx_pair), ctx_pair>>

\* if context_color_tag: ... pairs = [ctx_pair[::-1], ctx_pair] + pairs
PrependContext(cmap, context_color_tag, pairs) ==
    IF Truthy(context_color_tag)
    THEN LET ctx_pair == Get(cmap, context_color_tag)
         IN  IF ~ctx_pair.none THEN ContextPairs(ctx_pair) \o pairs ELSE pairs
    ELSE pairs

\* A faulty JoinStops: the stop strings joined in list order.
StopsInOrder(pairs) == Join([i \in 1..Len(pairs) |-> pairs[i].stop])

\* ''.join(x[1] for x in reversed(pairs))
JoinStops(pairs) ==
    LET rev == Reversed(pairs)
    IN  Join([i \in 1..Len(rev) |-> rev[i].stop])

\* ''.join(x[0] for x in pairs)
JoinStarts(pairs) == Join([i \in 1..Len(pairs) |-> pairs[i].start])

\* GenericColorizer.get_color_pair
get_color_pair(cmap, dflt, color_tag, context_color_tag) ==
    LET pairs == PrependContext(cmap, context_color_tag,
                             DefaultIfEmpty(cmap, dflt, FoundPairs(cmap, color_tag)))
    IN  Pair(JoinStarts(pairs), JoinStops(pairs))

\* ----------------------------------------------------------------- objects

\* An object handed to colorize: whether it has a color_tag attribute, the
\* attribute's value, and str(obj).
Plain(text) == [has_tag |-> FALSE, color_tag |-> NoneTag, text |-> text]

\* ColorizableMixin(color_tag): the attribute holds the argument as given.
ColorizableMixin(text, color_tag) ==
    [has_tag |-> TRUE, color_tag |-> color_tag, text |-> text]

\* chromalog.mark.Mark(obj, color_tag): a single tag string is kept as a
\* one-element list; str(Mark(obj, tag)) is str(obj).
Mark(text, color_tag) ==
    [has_tag |-> TRUE,
     color_tag |-> IF color_tag.kind = "str" THEN ListTag(<<color_tag.val>>)
                   ELSE color_tag,
     text |-> text]

\* getattr(obj, 'color_tag', None)
getattr_color_tag(obj) == IF obj.has_tag THEN obj.color_tag ELSE NoneTag

\* ColorizedObject(obj, color_pair)
ColorizedObject(obj, color_pair) == [obj |-> obj, color_pair |-> color_pair]

\* A faulty colorize: the pair is resolved whether or not the object has tags.
ColorizeAlwaysResolves(cmap, dflt, obj, context_color_tag) ==
    ColorizedObject(obj, get_color_pair(cmap, dflt, getattr_color_tag(obj),
                                        context_color_tag))

\* GenericColorizer.colorize
colorize(cmap, dflt, obj, context_color_tag) ==
    LET color_tag == getattr_color_tag(obj)
    IN  IF Truthy(color_tag)
        THEN ColorizedObject(obj, get_color_pair(cmap, dflt, color_tag,
                                                 context_color_tag))
        ELSE ColorizedObject(obj, NonePair)

\* ColorizedObject.__str__
ColorizedObject_str(co) ==
    IF co.color_pair.none
    THEN co.obj.text
    ELSE co.color_pair.start \o co.obj.text \o co.color_pair.stop

\* ------------------------------------------------------------- str.format

FormatError == [ok |-> FALSE, text |-> <<>>]
Formatted(text) == [ok |-> TRUE, text |-> text]

\* The index of the "}" closing the field opened before position i, or 0 when
\* the string ends, or another "{" comes, first.
RECURSIVE FieldEnd(_, _)
FieldEnd(s, i) ==
    IF i > Len(s) \/ s[i] = "{" THEN 0
    ELSE IF s[i] = "}" THEN i
    ELSE FieldEnd(s, i + 1)

\* msg.format(*args, **kwargs) from position i on, `auto` positional fields
\* consumed and `out` produced so far.  args holds the strings of the
\* positional arguments and kwargs those of the named ones.  "{{" and "}}"
\* are literal braces, "{}" takes the next positional argument (IndexError
\* when there is none), "{name}" the named one (KeyError when there is
\* none); a single "}" or an unclosed "{" is a ValueError.  Field names
\* here are letters only (no index, attribute, conversion or format spec).
RECURSIVE FormatFrom(_, _, _, _, _, _)
FormatFrom(s, i, auto, out, args, kwargs) ==
    IF i > Len(s) THEN Formatted(out)
    ELSE IF s[i] = "{"
    THEN IF i < Len(s) /\ s[i + 1] = "{"
         THEN FormatFrom(s, i + 2, auto, out \o <<"{">>, args, kwargs)
         ELSE LET j == FieldEnd(s, i + 1)
                  name == SubSeq(s, i + 1, j - 1)
              IN  IF j = 0 THEN FormatError
                  ELSE IF name = <<>>
                  THEN IF auto + 1 <= Len(args)
                       THEN FormatFrom(s, j + 1, auto + 1,
                                       out \o args[auto + 1], args, kwargs)
                       ELSE FormatError
                  ELSE IF name \in DOMAIN kwargs
                       THEN FormatFrom(s, j + 1, auto, out \o kwargs[name],
                                       args, kwargs)
                       ELSE FormatError
    ELSE IF s[i] = "}"
    THEN IF i < Len(s) /\ s[i + 1] = "}"
         THEN FormatFrom(s, i + 2, auto, out \o <<"}">>, args, kwargs)
         ELSE FormatError
    ELSE FormatFrom(s, i + 1, auto, out \o <<s[i]>>, args, kwargs)

\* str.format
Format(s, args, kwargs) == FormatFrom(s, 1, 0, <<>>, args, kwargs)

\* ----------------------------------------------------------------- Printer

\* A faulty CfuncContext: the arguments are colorized without the context.
CfuncWithoutContext(context_color_tag) == NoneTag

\* The context cfunc colorizes the arguments with: the printer's own when it
\* is truthy (the partial), none otherwise.
CfuncContext(context_color_tag) ==
    IF Truthy(context_color_tag) THEN context_color_tag ELSE NoneTag

\* msg = str(self.colorizer.colorize(Mark(msg, self.context_color_tag)))
\* when the printer has a truthy context, msg as given otherwise.
PrinterTemplate(cmap, dflt, context_color_tag, msg) ==
    IF Truthy(context_color_tag)
    THEN ColorizedObject_str(
             colorize(cmap, dflt, Mark(msg, context_color_tag), NoneTag))
    ELSE msg

\* Printer.__call__ up to its first write: msg.format(*args, **kwargs) with
\* every argument colorized.  format() of a ColorizedObject with an empty
\* format spec is its str().
PrinterFormat(cmap, dflt, context_color_tag, msg, args, kwargs) ==
    LET ctx == CfuncContext(context_color_tag)
        cargs == [i \in 1..Len(args) |->
                     ColorizedObject_str(colorize(cmap, dflt, args[i], ctx))]
        ckwargs == [k \in DOMAIN kwargs |->
                     ColorizedObject_str(colorize(cmap, dflt, kwargs[k], ctx))]
    IN  Format(PrinterTemplate(cmap, dflt, context_color_tag, msg),
               cargs, ckwargs)

\* self.stream.write(text), by the call `by`; `what` names which of the
\* call's two writes it is.
Write(strm, by, what, text) ==
    Append(strm, [by |-> by, what |-> what, text |-> text])

\* A faulty WriteMessage: the newline is written with the message.
WriteMessageWithNewline(strm, by, text) ==
    Write(strm, by, "message", text \o <<"\n">>)

\* self.stream.write(msg.format(*args, **kwargs))
WriteMessage(strm, by, text) == Write(strm, by, "message", text)

\* self.stream.write('\n')
WriteNewline(strm, by) == Write(strm, by, "newline", <<"\n">>)

\* A faulty StreamAfterCall: the newline is written even when format raised.
NewlineAlways(strm, by, r) ==
    WriteNewline(IF r.ok THEN WriteMessage(strm, by, r.text) ELSE strm, by)

\* The stream after a whole Printer.__call__ whose format gave r: nothing is
\* written when format raised, the message and then the newline otherwise.
StreamAfterCall(strm, by, r) ==
    IF r.ok THEN WriteNewline(WriteMessage(strm, by, r.text), by) ELSE strm

\* stream.getvalue(): the text of the chunks written.
getvalue(strm) == Join([i \in 1..Len(strm) |-> strm[i].text])

\* ------------------------------------------------------------------ inputs

\* The palette of test_printer and test_printer_with_context.
TestPalette == Restrict(UserPairs, {TagA, TagB, TagC})

\* The color_map arguments tried: None, {} and dicts over a, b, ab, c.
MapArgs ==
    {NoMap, Map(TestPalette)}
        \cup {Map(Restrict(UserPairs, S)) : S \in SUBSET {TagA, TagB, TagAB}}

\* The default_color_tag arguments tried.
DefaultTags == {NoneTag, StrTag(<<>>), StrTag(TagB)}

\* The context_color_tag arguments tried.
ContextTags == {NoneTag, StrTag(<<>>), StrTag(TagB), StrTag(TagC)}

\* The tag names that color_tag values are built from.
TagNames == {TagA, TagB, TagC, TagAB, TagError}

\* color_tag values: lists of tag names, single tag strings, ''.
ListTags == {ListTag(l) : l \in SeqsUpTo(TagNames, MaxTags)}
StrTags == {StrTag(t) : t \in TagNames \cup {<<>>}}

TextValue == <<"v", "a", "l", "u", "e">>
TextIs == <<"i", "s">>

\* The objects colorize is tried on.
Objects ==
    {Plain(TextValue), ColorizableMixin(TextValue, NoneTag)}
        \cup {ColorizableMixin(TextValue, t) : t \in StrTags \cup ListTags}
        \cup {Mark(TextValue, t) : t \in StrTags \cup ListTags}

\* The templates the printers are tried on: the test's, plain text, escaped
\* braces, and three that str.format rejects for some or all arguments.
TestTemplate ==
    <<"t", "h", "i", "s", " ", "{", "}", " ", "a", " ",
      "{", "v", "a", "l", "u", "e", "}", " ", "!">>
Templates ==
    {TestTemplate,
     <<"h", "i">>,
     <<"{", "{", "}", "}">>,
     <<"{", "v", "a", "l", "u", "e", "}", "{">>,
     <<"h", "}">>,
     <<"{", "}", "{", "}">>}

\* The positional and the named arguments the printers are tried on.
ArgLists == {<<>>, <<Plain(TextIs)>>}
KwargSets ==
    {<<>>,
     [k \in {TextValue} |-> Mark(TextValue, ListTag(<<TagA, TagB>>))],
     [k \in {TextValue} |-> Mark(TextValue, ListTag(<<TagA, TagB, TagC>>))]}

PrinterContexts == {NoneTag, StrTag(<<>>), StrTag(TagC)}

Writers == 1..NumWriters

\* ------------------------------------------------------------------- state

NoObj == Plain(<<>>)
NoCall ==
    [op |-> "none", color_tag |-> NoneTag, context_color_tag |-> NoneTag,
     obj |-> NoObj, msg |-> <<>>, args |-> <<>>, kwargs |-> <<>>]
NoRet == [kind |-> "none", obj |-> NoObj, color_pair |-> NonePair]
Idle == [at |-> "idle", text |-> <<>>]

\* A colorizer as its constructor leaves it, and an empty stream.  A
\* GenericColorizer given a falsy color_map raises AttributeError in
\* __init__ (it has no default_color_map), so no such colorizer exists.
InitColorizer ==
    /\ klass \in Classes
    /\ color_map_arg \in MapArgs
    /\ MapTruthy(color_map_arg) \/ HasDefaultMap(klass)
    /\ color_map = init_color_map(klass, color_map_arg)
    /\ default_color_tag \in DefaultTags
    /\ stream = <<>>
    /\ ret = NoRet
    /\ raised = FALSE
    /\ pc = [w \in Writers |-> Idle]
    /\ emitted = <<>>

\* The calls of the resolver that are tried.
ResolverCalls ==
    {[NoCall EXCEPT !.op = "get_color_pair", !.color_tag = t,
                    !.context_color_tag = c] :
        t \in ListTags \cup StrTags, c \in ContextTags}
    \cup {[NoCall EXCEPT !.op = "colorize", !.obj = o, !.context_color_tag = c] :
        o \in Objects, c \in ContextTags}

\* Any colorizer, and any one call of its resolver about to be made.
Init == InitColorizer /\ call \in ResolverCalls

\* The colorizers the printers are tried with.
InitPrinter ==
    /\ InitColorizer
    /\ klass = "Colorizer"
    /\ \/ color_map_arg = Map(TestPalette) /\ default_color_tag = NoneTag
       \/ color_map_arg = Map(Restrict(UserPairs, {TagA, TagB}))
            /\ default_color_tag = StrTag(TagB)
    /\ call = NoCall

colorizer == <<klass, color_map_arg, color_map, default_color_tag>>

\* ----------------------------------------------------------------- actions

\* colorizer.get_color_pair(color_tag, context_color_tag)
GetColorPair ==
    /\ call.op = "get_color_pair"
    /\ ret.kind = "none"
    /\ ret' = [kind |-> "pair", obj |-> NoObj,
               color_pair |-> get_color_pair(color_map, default_color_tag,
                                             call.color_tag,
                                             call.context_color_tag)]
    /\ UNCHANGED <<colorizer, call, raised, stream, pc, emitted>>

\* colorizer.colorize(obj, context_color_tag)
Colorize ==
    /\ call.op = "colorize"
    /\ ret.kind = "none"
    /\ ret' = [kind |-> "ColorizedObject"]
                @@ colorize(color_map, default_color_tag, call.obj,
                            call.context_color_tag)
    /\ UNCHANGED <<colorizer, call, raised, stream, pc, emitted>>

\* colorizer.printer(stream, context_color_tag)(msg, *args, **kwargs), run
\* from start to end with nothing in between.
PrinterCall(context_color_tag, msg, args, kwargs) ==
    /\ Len(stream) < 2 * MaxCalls
    /\ LET r == PrinterFormat(color_map, default_color_tag, context_color_tag,
                              msg, args, kwargs)
       IN  /\ stream' = StreamAfterCall(stream, 1, r)
           /\ raised' = ~r.ok
           /\ emitted' = IF r.ok THEN Append(emitted, r.text) ELSE emitted
    /\ call' = [NoCall EXCEPT !.op = "Printer.__call__", !.msg = msg,
                              !.context_color_tag = context_color_tag,
                              !.args = args, !.kwargs = kwargs]
    /\ UNCHANGED <<colorizer, ret, pc>>

\* Call w, one of several running at once on the stream, from its start to
\* its first write (or to the exception format raises).
CallWriteMessage(w, context_color_tag, msg, args, kwargs) ==
    /\ pc[w].at = "idle"
    /\ LET r == PrinterFormat(color_map, default_color_tag, context_color_tag,
                              msg, args, kwargs)
       IN  IF r.ok
           THEN /\ stream' = WriteMessage(stream, w, r.text)
                /\ pc' = [pc EXCEPT ![w] = [at |-> "newline", text |-> r.text]]
           ELSE /\ stream' = stream
                /\ pc' = [pc EXCEPT ![w] = [at |-> "raised", text |-> <<>>]]
    /\ UNCHANGED <<colorizer, call, ret, raised, emitted>>

\* Call w's second write, after which it returns.
CallWriteNewline(w) ==
    /\ pc[w].at = "newline"
    /\ stream' = WriteNewline(stream, w)
    /\ pc' = [pc EXCEPT ![w] = [at |-> "returned", text |-> pc[w].text]]
    /\ emitted' = Append(emitted, pc[w].text)
    /\ UNCHANGED <<colorizer, call, ret, raised>>

\* ---------------------------------------------------------- specifications

\* The resolver: get_color_pair or colorize, on every colorizer.
Next == GetColorPair \/ Colorize

Spec == Init /\ [][Next]_vars

\* Printer calls, one after the other.
NextPrinter ==
    \E ctx \in PrinterContexts, msg \in Templates, args \in ArgLists,
       kwargs \in KwargSets : PrinterCall(ctx, msg, args, kwargs)

SpecPrinter == InitPrinter /\ [][NextPrinter]_vars

\* Printer calls of several threads on one stream: a thread may be
\* switched out between the two writes of its call.
ThreadTemplates == {<<"h", "i">>, <<"{", "}">>}
NextThreads ==
    \/ \E w \in Writers, ctx \in {NoneTag, StrTag(TagC)},
          msg \in ThreadTemplates, args \in {<<>>, <<Plain(TextIs)>>} :
            CallWriteMessage(w, ctx, msg, args, <<>>)
    \/ \E w \in Writers : CallWriteNewline(w)

SpecThreads == InitPrinter /\ [][NextThreads]_vars

\* ------------------------------------------------------- the claims' terms

\* The start strings of the tags of T found in the palette, in T's order.
RECURSIVE StartsOfFound(_, _)
StartsOfFound(cmap, T) ==
    IF T = <<>> THEN <<>>
    ELSE (IF Head(T) \in DOMAIN cmap THEN cmap[Head(T)].start ELSE <<>>)
            \o StartsOfFound(cmap, Tail(T))

\* The stop strings of the tags of T found in the palette, in the reverse of
\* T's order.
RECURSIVE StopsOfFoundReversed(_, _)
StopsOfFoundReversed(cmap, T) ==
    IF T = <<>> THEN <<>>
    ELSE StopsOfFoundReversed(cmap, Tail(T))
            \o (IF Head(T) \in DOMAIN cmap THEN cmap[Head(T)].stop ELSE <<>>)

AnyFound(cmap, T) == \E i \in 1..Len(T) : T[i] \in DOMAIN cmap

\* A tag slot holding a tag that is a key of the palette.
Present(cmap, tag) == tag.kind = "str" /\ tag.val \in DOMAIN cmap

\* The pair the tags of T alone stand for: that of the found tags, or the
\* default tag's when none is found and the default is in the palette.
TagDerived(cmap, dflt, T) ==
    IF AnyFound(cmap, T)
    THEN Pair(StartsOfFound(cmap, T), StopsOfFoundReversed(cmap, T))
    ELSE IF Present(cmap, dflt) THEN cmap[dflt.val]
    ELSE Pair(<<>>, <<>>)

\* get_color_pair has returned for a list of tags.
ResolvedList == ret.kind = "pair" /\ call.color_tag.kind = "list"

\* C1: with a context tag c that is in the palette as (sc, ec),
\* get_color_pair(T, c) is (ec + sc + the starts of T's pairs in order,
\* the stops of T's pairs in reverse order + ec + sc).
C1_ContextPairsPrepended ==
    (ResolvedList /\ Present(color_map, call.context_color_tag)) =>
        LET c == color_map[call.context_color_tag.val]
            t == TagDerived(color_map, default_color_tag, call.color_tag.val)
        IN  ret.color_pair = Pair(c.stop \o c.start \o t.start,
                                  t.stop \o c.stop \o c.start)

\* get_color_pair(['a', 'b'], 'c') on the tests' palette gave ('><[(', ')]><').
C1_Witness ==
    /\ ResolvedList
    /\ call.color_tag.val = <<TagA, TagB>>
    /\ call.context_color_tag = StrTag(TagC)
    /\ ret.color_pair = Pair(<<">", "<", "[", "(">>, <<")", "]", ">", "<">>)

\* C2: without a context tag and with at least one tag of T in the palette,
\* get_color_pair(T) is (the starts of the found tags in T's order, their
\* stops in the reverse order); absent tags change nothing.
C2_StartsInOrderStopsReversed ==
    (/\ ResolvedList
     /\ call.context_color_tag = NoneTag
     /\ AnyFound(color_map, call.color_tag.val)) =>
        ret.color_pair = Pair(StartsOfFound(color_map, call.color_tag.val),
                              StopsOfFoundReversed(color_map, call.color_tag.val))

\* get_color_pair(['a', 'b']) gave ('[(', ')]').
C2_Witness ==
    /\ ResolvedList
    /\ call.context_color_tag = NoneTag
    /\ call.color_tag.val = <<TagA, TagB>>
    /\ ret.color_pair = Pair(<<"[", "(">>, <<")", "]">>)

\* get_color_pair([a], c) for a tag a and a context tag c both in the palette.
OneTagInContext ==
    /\ ResolvedList
    /\ Len(call.color_tag.val) = 1
    /\ call.color_tag.val[1] \in DOMAIN color_map
    /\ Present(color_map, call.context_color_tag)

\* C3 as stated: get_color_pair([a], c) is (ec + sa, ea + sc).
C3_AsStated ==
    OneTagInContext =>
        LET c == color_map[call.context_color_tag.val]
            a == color_map[call.color_tag.val[1]]
        IN  ret.color_pair = Pair(c.stop \o a.start, a.stop \o c.start)

\* C3, amended: get_color_pair([a], c) is (ec + sc + sa, ea + ec + sc).
C3_OneTagInContext ==
    OneTagInContext =>
        LET c == color_map[call.context_color_tag.val]
            a == color_map[call.color_tag.val[1]]
        IN  ret.color_pair = Pair(c.stop \o c.start \o a.start,
                                  a.stop \o c.stop \o c.start)

\* get_color_pair(['a'], 'b') gave ('>(' + '[', ']' + ')(' ) on a palette
\* with a and b: the test's case with its pairs.
C3_Witness ==
    /\ OneTagInContext
    /\ call.color_tag.val = <<TagA>>
    /\ call.context_color_tag = StrTag(TagB)
    /\ ret.color_pair = Pair(<<")", "(", "[">>, <<"]", ")", "(">>)

\* C4: without a context tag, the default tag's pair is the result exactly
\* when no tag of T is found and the default tag is in the palette; when a
\* tag is found the default adds nothing; when none is found and the
\* default is unset or absent the result is ('', '').
C4_DefaultOnlyWhenNoneFound ==
    (ResolvedList /\ call.context_color_tag = NoneTag) =>
        LET T == call.color_tag.val
        IN  /\ (~AnyFound(color_map, T) /\ Present(color_map, default_color_tag))
                => ret.color_pair = color_map[default_color_tag.val]
            /\ AnyFound(color_map, T)
                => ret.color_pair = Pair(StartsOfFound(color_map, T),
                                         StopsOfFoundReversed(color_map, T))
            /\ (~AnyFound(color_map, T) /\ ~Present(color_map, default_color_tag))
                => ret.color_pair = Pair(<<>>, <<>>)

\* get_color_pair(['c']) with default tag b, on a palette without c, gave b's
\* pair.
C4_Witness ==
    /\ ResolvedList
    /\ call.context_color_tag = NoneTag
    /\ call.color_tag.val = <<TagC>>
    /\ TagC \notin DOMAIN color_map
    /\ default_color_tag = StrTag(TagB)
    /\ ret.color_pair = Pair(<<"(">>, <<")">>)

\* C7 as stated: a value whose color_tag is the single string t, t in the
\* palette, is colorized with t's pair, as with the list [t].
C7_StringTagLikeList ==
    (/\ ret.kind = "ColorizedObject"
     /\ call.context_color_tag = NoneTag
     /\ Present(color_map, call.obj.color_tag)) =>
        /\ ret.color_pair = color_map[call.obj.color_tag.val]
        /\ ret.color_pair =
             colorize(color_map, default_color_tag,
                      ColorizableMixin(call.obj.text,
                                       ListTag(<<call.obj.color_tag.val>>)),
                      NoneTag).color_pair

\* C8 as stated: a colorizer given a palette P (the empty one included) and
\* no default tag returns ('', '') for every tag list without a key of P.
C8_ExplicitPaletteOnly ==
    (/\ ResolvedList
     /\ color_map_arg.given
     /\ default_color_tag = NoneTag
     /\ call.context_color_tag = NoneTag
     /\ ~AnyFound(color_map_arg.map, call.color_tag.val)) =>
        ret.color_pair = Pair(<<>>, <<>>)

\* No tag of the object is found and neither a default nor a context applies.
NothingApplies(obj, ctx) ==
    /\ \A i \in 1..Len(Iter(obj.color_tag)) :
            Iter(obj.color_tag)[i] \notin DOMAIN color_map
    /\ ~Present(color_map, default_color_tag)
    /\ ~Present(color_map, ctx)

Substituted(obj, ctx) ==
    IF obj.has_tag /\ Truthy(obj.color_tag)
    THEN LET p == get_color_pair(color_map, default_color_tag, obj.color_tag, ctx)
         IN  p.start \o obj.text \o p.stop
    ELSE obj.text

\* The last call was a printer's, with a context tag of the palette.
PrintedInContext ==
    /\ call.op = "Printer.__call__"
    /\ Present(color_map, call.context_color_tag)

\* C5: a printer with context tag c, in the palette as (sc, ec), appends
\* sc + the template with its placeholders substituted + ec and then a
\* newline, each argument substituted as Substituted says; and it raises,
\* appending nothing, exactly when the template cannot be substituted.
C5_PrinterWithContext ==
    PrintedInContext =>
        LET c == color_map[call.context_color_tag.val]
            body == Format(call.msg,
                        [i \in 1..Len(call.args) |->
                            Substituted(call.args[i], call.context_color_tag)],
                        [k \in DOMAIN call.kwargs |->
                            Substituted(call.kwargs[k], call.context_color_tag)])
            n == Len(stream)
        IN  /\ raised <=> ~body.ok
            /\ ~raised =>
                /\ n >= 2
                /\ stream[n - 1].text = c.start \o body.text \o c.stop
                /\ stream[n].text = <<"\n">>

\* The test's call: '<this is a ><[(value)]>< !>' and a newline are in the
\* stream.
C5_Witness ==
    /\ PrintedInContext
    /\ call.msg = TestTemplate
    /\ getvalue(stream) =
        <<"<", "t", "h", "i", "s", " ", "i", "s", " ", "a", " ", ">", "<",
          "[", "(", "v", "a", "l", "u", "e", ")", "]", ">", "<", " ", "!", ">",
          "\n">>

\* C10: a printer call whose template cannot be substituted raises and
\* leaves the stream as it was: the stream always holds the messages of the
\* calls that returned, each followed by one newline, in call order.
C10_FailedCallWritesNothing ==
    /\ getvalue(stream) =
         Join([i \in 1..Len(emitted) |-> emitted[i] \o <<"\n">>])
    /\ Len(stream) = 2 * Len(emitted)
    /\ (call.op = "Printer.__call__" /\ raised) =>
         ~Format(PrinterTemplate(color_map, default_color_tag,
                                 call.context_color_tag, call.msg),
                 [i \in 1..Len(call.args) |->
                    Substituted(call.args[i], CfuncContext(call.context_color_tag))],
                 [k \in DOMAIN call.kwargs |->
                    Substituted(call.kwargs[k],
                                CfuncContext(call.context_color_tag))]).ok

\* A call of a printer with a context raised after another had returned, and
\* the stream holds the first call's message only.
C10_Witness ==
    /\ call.op = "Printer.__call__"
    /\ raised
    /\ Truthy(call.context_color_tag)
    /\ Len(emitted) = 1
    /\ getvalue(stream) = emitted[1] \o <<"\n">>

\* The chunks of the stream that call w wrote.
WrittenBy(w) == SelectSeq(stream, LAMBDA ch : ch.by = w)

\* C6 as stated: a message and its newline are one write, so that no other
\* call's text comes between a message and its own newline.
C6_MessageAndNewlineTogether ==
    \A i \in 1..Len(stream) :
        (stream[i].what = "message" /\ i < Len(stream)) =>
            stream[i + 1] = [by |-> stream[i].by, what |-> "newline",
                             text |-> <<"\n">>]

\* C6, amended: a printer call that returns makes two writes, the
\* substituted message and then the newline; a call that raises makes none;
\* the writes of other calls may come between the two.
C6_TwoWritesPerCall ==
    \A w \in Writers :
        /\ pc[w].at \in {"idle", "raised"} => WrittenBy(w) = <<>>
        /\ pc[w].at = "newline" =>
            WrittenBy(w) = <<[by |-> w, what |-> "message", text |-> pc[w].text]>>
        /\ pc[w].at = "returned" =>
            WrittenBy(w) = <<[by |-> w, what |-> "message", text |-> pc[w].text],
                             [by |-> w, what |-> "newline", text |-> <<"\n">>]>>

\* Two calls have returned and the second's message lies between the
\* first's message and the first's newline.
C6_Witness ==
    /\ Len(stream) = 4
    /\ stream[1].by = 1 /\ stream[1].what = "message"
    /\ stream[2].by = 2 /\ stream[2].what = "message"
    /\ stream[3].by = 1 /\ stream[3].what = "newline"
    /\ pc[1].at = "returned" /\ pc[2].at = "returned"

====
